---- MODULE Spec2Model ----
(***************************************************************************)
(* go-result: the Result tuple and its two constructors, ok and err        *)
(* (src/src/index.ts), together with the consumer patterns the README and  *)
(* the test suite use on the tuples they return.                           *)
(*                                                                         *)
(* A JavaScript value is a record [type, n, d, s]: type is the typeof-like *)
(* tag, n / d the number (n alone the object identity), s the string       *)
(* contents.  An array                                                     *)
(* is an object on the heap; a call of ok or err evaluates an array        *)
(* literal, which allocates a new heap cell and returns its address.       *)
(***************************************************************************)
EXTENDS Integers, Sequences, FiniteSets, TLC

\* The number of ok/err calls a behaviour makes.
MaxCalls == 2

----------------------------------------------------------------------------
\* JavaScript values

Null == [type |-> "null", n |-> 0, d |-> 1, s |-> ""]

Undefined == [type |-> "undefined", n |-> 0, d |-> 1, s |-> ""]

\* A number is the fraction n / d in lowest terms with d > 0.
Rat(p, q) == [type |-> "number", n |-> p, d |-> q, s |-> ""]

Num(k) == Rat(k, 1)

Str(t) == [type |-> "string", n |-> 0, d |-> 1, s |-> t]

Obj(id) == [type |-> "object", n |-> id, d |-> 1, s |-> ""]

\* The payloads the callers pass: the values of the test suite (42, a
\* string, an object, null, undefined) and the falsy number and string.
Payloads ==
    { Null, Undefined, Num(0), Num(42), Str(""), Str("division by zero"), Obj(1) }

\* ECMAScript ToBoolean, as applied by `if (error)` and `if (value)`.
ToBoolean(v) ==
    CASE v.type = "null" -> FALSE
      [] v.type = "undefined" -> FALSE
      [] v.type = "number" -> v.n # 0
      [] v.type = "string" -> v.s # ""
      [] OTHER -> TRUE

Callers == {"c1", "c2"}

Fns == {"ok", "err"}

----------------------------------------------------------------------------
\* The constructors.  h is the heap before the call; the result carries the
\* heap after it, the address returned and how the call ended.

okSwapped(h, value) ==
    [heap |-> Append(h, <<Null, value>>), ref |-> Len(h) + 1, outcome |-> "returned"]

okValidating(h, value) ==
    IF value = Null \/ value = Undefined
    THEN [heap |-> h, ref |-> 0, outcome |-> "threw"]
    ELSE [heap |-> Append(h, <<value, Null>>), ref |-> Len(h) + 1, outcome |-> "returned"]

okReusing(h, value) ==
    IF Len(h) = 0
    THEN [heap |-> <<<<value, Null>>>>, ref |-> 1, outcome |-> "returned"]
    ELSE [heap |-> [h EXCEPT ![1] = <<value, Null>>], ref |-> 1, outcome |-> "returned"]

okInterned(h, value) ==
    IF \E a \in DOMAIN h : h[a] = <<value, Null>>
    THEN [heap |-> h, ref |-> CHOOSE a \in DOMAIN h : h[a] = <<value, Null>>,
          outcome |-> "returned"]
    ELSE [heap |-> Append(h, <<value, Null>>), ref |-> Len(h) + 1, outcome |-> "returned"]

okLeaky(h, value) ==
    [heap |-> Append(h, <<value, IF Len(h) = 0 THEN Null ELSE h[Len(h)][2]>>),
     ref |-> Len(h) + 1, outcome |-> "returned"]

\* export const ok = <S>(value: S) => [value, null] as const
ok(h, value) ==
    [heap |-> Append(h, <<value, Null>>), ref |-> Len(h) + 1, outcome |-> "returned"]

errSwapped(h, error) ==
    [heap |-> Append(h, <<error, Null>>), ref |-> Len(h) + 1, outcome |-> "returned"]

errBoth(h, error) ==
    [heap |-> Append(h, <<error, error>>), ref |-> Len(h) + 1, outcome |-> "returned"]

errNullish(h, error) ==
    [heap |-> Append(h, <<Null, IF error = Undefined THEN Null ELSE error>>),
     ref |-> Len(h) + 1, outcome |-> "returned"]

\* export const err = <E>(error: E) => [null, error] as const
err(h, error) ==
    [heap |-> Append(h, <<Null, error>>), ref |-> Len(h) + 1, outcome |-> "returned"]

Apply(fn, h, v) == IF fn = "ok" THEN ok(h, v) ELSE err(h, v)

----------------------------------------------------------------------------
\* The division routine of the test suite and the README's Quick Start.

Abs(k) == IF k < 0 THEN -k ELSE k

RECURSIVE Gcd(_, _)
Gcd(x, y) == IF y = 0 THEN x ELSE Gcd(y, x % y)

\* a / b on numbers, b not zero: the quotient in lowest terms.
Quotient(a, b) ==
    LET p == a.n * b.d
        q == a.d * b.n
        g == Gcd(Abs(p), Abs(q))
    IN  IF q < 0 THEN Rat((-p) \div g, (-q) \div g) ELSE Rat(p \div g, q \div g)

\* The operands the callers divide: 10 by 0 and by 2 as in the tests, and
\* zero, negative and non-integral quotients.
Dividends == { Num(-7), Num(0), Num(10) }

Divisors == { Num(0), Num(2), Num(4) }

divideTruncating(h, a, b) ==
    IF b = Num(0)
    THEN err(h, Str("division by zero"))
    ELSE ok(h, Num((a.n * b.d) \div (a.d * b.n)))

\* function divide(a, b) { if (b === 0) return err('division by zero');
\*                         return ok(a / b); }
divide(h, a, b) ==
    IF b = Num(0)
    THEN err(h, Str("division by zero"))
    ELSE ok(h, Quotient(a, b))

----------------------------------------------------------------------------
VARIABLES
    heap,    \* the arrays allocated so far, by address
    calls,   \* the ok/err calls made so far: [fn, arg, outcome, ref]
    pc,      \* each caller's position
    cur,     \* each caller's current call, an index of calls (0: none)
    r,       \* each caller's Result reference (0: none)
    value,   \* each caller's destructured position 0
    error    \* each caller's destructured position 1

vars == <<heap, calls, pc, cur, r, value, error>>

Init ==
    /\ heap = <<>>
    /\ calls = <<>>
    /\ pc = [c \in Callers |-> "idle"]
    /\ cur = [c \in Callers |-> 0]
    /\ r = [c \in Callers |-> 0]
    /\ value = [c \in Callers |-> Undefined]
    /\ error = [c \in Callers |-> Undefined]

\* const result = ok(v)  /  const result = err(v)
Call(c) ==
    /\ pc[c] = "idle"
    /\ Len(calls) < MaxCalls
    /\ \E fn \in Fns, v \in Payloads :
         LET res == Apply(fn, heap, v) IN
         /\ heap' = res.heap
         /\ calls' = Append(calls, [fn |-> fn, arg |-> v,
                                    outcome |-> res.outcome, ref |-> res.ref])
         /\ cur' = [cur EXCEPT ![c] = Len(calls) + 1]
         /\ r' = [r EXCEPT ![c] = res.ref]
         /\ pc' = [pc EXCEPT ![c] = IF res.outcome = "returned" THEN "called" ELSE "threw"]
    /\ UNCHANGED <<value, error>>

\* const [value, error] = result
Destructure(c) ==
    /\ pc[c] = "called"
    /\ value' = [value EXCEPT ![c] = heap[r[c]][1]]
    /\ error' = [error EXCEPT ![c] = heap[r[c]][2]]
    /\ pc' = [pc EXCEPT ![c] = "destructured"]
    /\ UNCHANGED <<heap, calls, cur, r>>

\* if (error) return ...;  <code after the check>
EarlyReturn(c) ==
    /\ pc[c] = "destructured"
    /\ pc' = [pc EXCEPT ![c] = IF ToBoolean(error[c]) THEN "early_return" ELSE "after_check"]
    /\ UNCHANGED <<heap, calls, cur, r, value, error>>

\* if (value) { <guarded branch> }
SuccessOnly(c) ==
    /\ pc[c] = "destructured"
    /\ pc' = [pc EXCEPT ![c] = IF ToBoolean(value[c]) THEN "guarded" ELSE "skipped"]
    /\ UNCHANGED <<heap, calls, cur, r, value, error>>

\* expect(error).toBeNull(): success exactly when position 1 is null
ClassifyByError(c) ==
    /\ pc[c] = "destructured"
    /\ pc' = [pc EXCEPT ![c] = IF error[c] = Null THEN "success" ELSE "failure"]
    /\ UNCHANGED <<heap, calls, cur, r, value, error>>

\* expect(value).toBeNull(): a value is present exactly when position 0 is not null
ClassifyByValue(c) ==
    /\ pc[c] = "destructured"
    /\ pc' = [pc EXCEPT ![c] = IF value[c] = Null THEN "no_value" ELSE "has_value"]
    /\ UNCHANGED <<heap, calls, cur, r, value, error>>

Terminal ==
    {"early_return", "after_check", "guarded", "skipped",
     "success", "failure", "no_value", "has_value"}

\* The consuming function returns: its locals go out of scope, and the
\* caller is free to make its next call.
Finish(c) ==
    /\ pc[c] \in Terminal
    /\ pc' = [pc EXCEPT ![c] = "idle"]
    /\ cur' = [cur EXCEPT ![c] = 0]
    /\ r' = [r EXCEPT ![c] = 0]
    /\ value' = [value EXCEPT ![c] = Undefined]
    /\ error' = [error EXCEPT ![c] = Undefined]
    /\ UNCHANGED <<heap, calls>>

Next ==
    \E c \in Callers :
        \/ Call(c)
        \/ Destructure(c)
        \/ EarlyReturn(c)
        \/ SuccessOnly(c)
        \/ ClassifyByError(c)
        \/ ClassifyByValue(c)
        \/ Finish(c)

Spec == Init /\ [][Next]_vars

\* const [value, error] = divide(a, b): the call of the division tests.
CallDivide(c) ==
    /\ pc[c] = "idle"
    /\ Len(calls) < MaxCalls
    /\ \E a \in Dividends, b \in Divisors :
         LET res == divide(heap, a, b) IN
         /\ heap' = res.heap
         /\ calls' = Append(calls, [fn |-> "divide", a |-> a, b |-> b,
                                    outcome |-> res.outcome, ref |-> res.ref])
         /\ cur' = [cur EXCEPT ![c] = Len(calls) + 1]
         /\ r' = [r EXCEPT ![c] = res.ref]
         /\ pc' = [pc EXCEPT ![c] = IF res.outcome = "returned" THEN "called" ELSE "threw"]
    /\ UNCHANGED <<value, error>>

NextDivide ==
    \E c \in Callers :
        \/ CallDivide(c)
        \/ Destructure(c)
        \/ ClassifyByError(c)
        \/ ClassifyByValue(c)
        \/ Finish(c)

SpecDivide == Init /\ [][NextDivide]_vars

----------------------------------------------------------------------------
\* The container a call returned, and the container a call returns when it
\* is the only call ever made.

Returned(i) == calls[i].outcome = "returned" /\ calls[i].ref \in DOMAIN heap

Container(i) == heap[calls[i].ref]

Isolated(fn, v) == LET res == Apply(fn, <<>>, v) IN res.heap[res.ref]

\* C1: for every value V, null and undefined included, ok(V) returns a
\* container of exactly two positions, position 0 being V and position 1 null.
C1_OkContainer ==
    \A i \in DOMAIN calls :
        calls[i].fn = "ok" =>
            /\ Returned(i)
            /\ Len(Container(i)) = 2
            /\ Container(i)[1] = calls[i].arg
            /\ Container(i)[2] = Null

C1_Witness ==
    /\ \E i \in DOMAIN calls :
         calls[i].fn = "ok" /\ calls[i].arg = Null /\ Returned(i)
    /\ \E i \in DOMAIN calls :
         calls[i].fn = "ok" /\ calls[i].arg = Obj(1) /\ Returned(i)

\* C2: for every value E, null included, err(E) returns a container of
\* exactly two positions, position 0 being null and position 1 E.
C2_ErrContainer ==
    \A i \in DOMAIN calls :
        calls[i].fn = "err" =>
            /\ Returned(i)
            /\ Len(Container(i)) = 2
            /\ Container(i)[1] = Null
            /\ Container(i)[2] = calls[i].arg

C2_Witness ==
    /\ \E i \in DOMAIN calls :
         calls[i].fn = "err" /\ calls[i].arg = Null /\ Returned(i)
    /\ \E i \in DOMAIN calls :
         calls[i].fn = "err" /\ calls[i].arg = Obj(1) /\ Returned(i)

\* C3: a consumer that returns early when `error` is truthy reaches the code
\* after the check only with a container built by ok, whatever payload err was
\* given, so `value` there is the success payload.
C3_AfterCheckOnlyOk ==
    \A c \in Callers :
        pc[c] = "after_check" =>
            /\ calls[cur[c]].fn = "ok"
            /\ value[c] = calls[cur[c]].arg

\* C4: a container built from a non-null payload has exactly one null
\* position; both positions are null only for ok(null) and err(null); no
\* container has two non-null positions.
C4_ExactlyOneNull ==
    \A i \in DOMAIN calls :
        /\ Returned(i)
        /\ calls[i].arg # Null =>
               (Container(i)[1] = Null) # (Container(i)[2] = Null)
        /\ (Container(i)[1] = Null /\ Container(i)[2] = Null) => calls[i].arg = Null
        /\ Container(i)[1] = Null \/ Container(i)[2] = Null

C4_Witness ==
    /\ \E i \in DOMAIN calls : calls[i].arg = Undefined /\ Returned(i)
    /\ \E i \in DOMAIN calls : calls[i].arg = Null /\ Container(i) = <<Null, Null>>

\* C5: the position-1-is-null check classifies every ok(V) as success,
\* ok(null) included; the position-0-is-null check reports no value for
\* ok(null).
C5_ClassifyOk ==
    \A c \in Callers :
        cur[c] # 0 /\ calls[cur[c]].fn = "ok" =>
            /\ pc[c] # "failure"
            /\ calls[cur[c]].arg = Null => pc[c] # "has_value"

C5_Witness ==
    /\ \E c \in Callers :
         pc[c] = "success" /\ calls[cur[c]].fn = "ok" /\ calls[cur[c]].arg = Null
    /\ \E c \in Callers :
         pc[c] = "no_value" /\ calls[cur[c]].fn = "ok" /\ calls[cur[c]].arg = Null

\* C6: position 0 of a container is truthy only if ok built it, so the
\* branch guarded by `if (value)` runs only after a call of ok.
C6_GuardedOnlyOk ==
    /\ \A i \in DOMAIN calls :
         Returned(i) /\ ToBoolean(Container(i)[1]) => calls[i].fn = "ok"
    /\ \A c \in Callers : pc[c] = "guarded" => calls[cur[c]].fn = "ok"

C6_Witness ==
    /\ \E c \in Callers : pc[c] = "guarded"
    /\ \E c \in Callers :
         pc[c] = "skipped" /\ calls[cur[c]].fn = "err" /\ ToBoolean(calls[cur[c]].arg)

C8_NeverFails ==
    /\ \A i \in DOMAIN calls : Returned(i)
    /\ \A c \in Callers : pc[c] # "threw"
    /\ \A fn \in Fns, v \in Payloads : Apply(fn, heap, v).outcome = "returned"

C8_Witness ==
    /\ \E i \in DOMAIN calls : calls[i].arg \in {Null, Undefined} /\ Returned(i)
    /\ \E i \in DOMAIN calls : calls[i].arg = Obj(1) /\ Returned(i)

\* C9: a call returns the container contents it returns in isolation,
\* whatever calls were made before it, and leaves the container every other
\* caller holds as it was.
C9_Independent ==
    [][Len(calls') = Len(calls) + 1 =>
          LET k == calls'[Len(calls')] IN
          /\ k.ref \in DOMAIN heap'
          /\ heap'[k.ref] = Isolated(k.fn, k.arg)
          /\ \A d \in Callers :
               cur'[d] = cur[d] /\ r[d] # 0 =>
                   /\ r'[d] = r[d]
                   /\ heap'[r[d]] = heap[r[d]]
                   /\ value'[d] = value[d]
                   /\ error'[d] = error[d]
                   /\ pc'[d] = pc[d]]_vars

C9_Witness ==
    \E c, d \in Callers :
        /\ c # d
        /\ cur[c] = 1 /\ cur[d] = 2
        /\ calls[1].fn = "err" /\ ToBoolean(calls[1].arg)
        /\ calls[2].fn = "ok"
        /\ pc[c] = "early_return" /\ pc[d] = "after_check"

\* C10: two calls of the same constructor with equal payloads return two
\* different containers whose positions are equal one by one.
C10_FreshEqual ==
    \A i, j \in DOMAIN calls :
        (i # j /\ calls[i].fn = calls[j].fn /\ calls[i].arg = calls[j].arg
              /\ Returned(i) /\ Returned(j)) =>
            /\ calls[i].ref # calls[j].ref
            /\ Len(Container(i)) = Len(Container(j))
            /\ \A p \in 1..Len(Container(i)) : Container(i)[p] = Container(j)[p]

C10_Witness ==
    \E i, j \in DOMAIN calls :
        /\ i # j
        /\ calls[i].fn = calls[j].fn
        /\ calls[i].arg = calls[j].arg
        /\ calls[i].arg = Obj(1)
        /\ Returned(i) /\ Returned(j)

\* C11: divide(a, b) returns [null, 'division by zero'] exactly when b is 0,
\* and otherwise [q, null] with q the number for which q * b = a; a caller
\* that destructures the result sees these two positions.  divide(10, 0) is
\* [null, 'division by zero'] and divide(10, 2) is [5, null].
C11_Divide ==
    /\ \A i \in DOMAIN calls :
         /\ Returned(i)
         /\ Len(Container(i)) = 2
         /\ calls[i].b = Num(0) <=> Container(i) = <<Null, Str("division by zero")>>
         /\ calls[i].b # Num(0) =>
              LET q == Container(i)[1] IN
              /\ Container(i)[2] = Null
              /\ q.type = "number"
              /\ q.d > 0
              /\ q.n * calls[i].b.n * calls[i].a.d = calls[i].a.n * calls[i].b.d * q.d
              /\ Gcd(Abs(q.n), q.d) = 1
         /\ (calls[i].a = Num(10) /\ calls[i].b = Num(2)) =>
              Container(i) = <<Num(5), Null>>
    /\ \A c \in Callers :
         pc[c] \in {"destructured"} \cup Terminal =>
             /\ value[c] = Container(cur[c])[1]
             /\ error[c] = Container(cur[c])[2]

C11_Witness ==
    \E c, e \in Callers :
        /\ pc[c] = "no_value" /\ pc[e] = "success"
        /\ calls[cur[c]].a = Num(10) /\ calls[cur[c]].b = Num(0)
        /\ error[c] = Str("division by zero")
        /\ calls[cur[e]].a = Num(10) /\ calls[cur[e]].b = Num(2)
        /\ value[e] = Num(5)

\* C12: two ok containers are equal by value only for equal payloads, two err
\* containers likewise, and an ok container equals an err container exactly
\* when both payloads are null; the position-1-is-null check classifies
\* err(null) as success.
C12_Recoverable ==
    /\ \A i, j \in DOMAIN calls :
         (Returned(i) /\ Returned(j)) =>
             /\ (calls[i].fn = calls[j].fn /\ Container(i) = Container(j)) =>
                    calls[i].arg = calls[j].arg
             /\ (calls[i].fn = "ok" /\ calls[j].fn = "err") =>
                    ((Container(i) = Container(j)) <=>
                         (calls[i].arg = Null /\ calls[j].arg = Null))
    /\ \A c \in Callers :
         (cur[c] # 0 /\ calls[cur[c]].fn = "err" /\ calls[cur[c]].arg = Null) =>
             pc[c] # "failure"

C12_Witness ==
    \E c, e \in Callers :
        /\ pc[c] = "success" /\ pc[e] = "success"
        /\ calls[cur[c]].fn = "err" /\ calls[cur[c]].arg = Null
        /\ calls[cur[e]].fn = "ok" /\ calls[cur[e]].arg = Null
        /\ Container(cur[c]) = Container(cur[e])
        /\ r[c] # r[e]

====
